---- MODULE Spec2Model ----
(***************************************************************************)
(* Call-processing pipeline of the sales-checklist backend, for one call   *)
(* session: audio intake, transcription, checklist analysis, scoring and   *)
(* human override.  The variables are the committed rows of the relational *)
(* store (what any other request can read) plus the position and local     *)
(* data of every pipeline run that is in flight.  A handler that commits   *)
(* more than once is one action per commit, so that the states in between  *)
(* are the states a concurrent request can observe.                        *)
(***************************************************************************)
EXTENDS Integers, Sequences, FiniteSets, TLC

\* ---------------------------------------------------------------- bounds
\* pipeline runs (upload requests or background transcription tasks) that
\* may ever be started for the session
MaxRuns == 2
\* POST coaching and POST coaching/regenerate requests that get past their
\* checks
MaxCoach == 2
\* users of the explored organizations; user u owns session u
MaxUsers == 3

\* ------------------------------------------------------ program constants
\* the analyzer insists on exactly 10 active checklist items
NumItems == 10
\* points per validated item
PointsPerItem == 10
\* risk band thresholds
GreenMin == 80
YellowMin == 60

Items == 1..NumItems
Runs == 1..MaxRuns
CoachJobs == 1..MaxCoach
UserIds == 1..MaxUsers

\* ------------------------------------------------------------ input sets
\* number of leading items the completion answers "yes" for
YesCounts == {7}
\* items a user overrides in the explored behaviours
OverrideItems == {7, 8}
\* numbers of true answers of the sessions whose coaching is explored, and
\* the item overridden there
ServiceYes == {9, 10}
ServiceOverrideItems == {10}
\* position of a malformed question_evaluations entry in a completion
\* (0: every entry is well formed)
BadItems == {0, 3}

\* shapes of the completion that analyze_transcript receives: whether the
\* call returned and its content parsed as JSON, the number of entries of
\* "items", and the position of an entry without "answer" or "reasoning"
\* (0: every entry has both)
Completions == [parsed : BOOLEAN, entries : {9, 10, 11}, lacks : {0, 4}]

\* three-valued column: a nullable Boolean
Tri == {"true", "false", "none"}

VARIABLES
    status,          \* sessions.status
    audio_file,      \* audio_files row of the session: "none" or its storage_type
    transcript,      \* transcripts row of the session: 0 or the id of the row
    responses,       \* session_responses rows of the session
    scoring_result,  \* scoring_results row of the session: <<>> or <<row>>
    score_history,   \* score_history rows of the session, in insertion order
    runs,            \* per pipeline run: kind, position, local data
    coaching_feedback, \* coaching_feedback rows of the session: set of ids
    feedback_columns, \* feedback_text and audio_s3_key of the row stored last
    coaching_task,   \* a generate_coaching_in_background task is pending
    coach,           \* per coaching request: kind and position
    report,          \* reports row of the session: "none", or is_generated
    users,           \* users rows: role, organization_id, team_id
    access_response  \* answer of the last list, get or metrics request

vars == <<status, audio_file, transcript, responses, scoring_result,
          score_history, runs, coaching_feedback, feedback_columns,
          coaching_task, coach, report, users, access_response>>

coachingVars == <<coaching_feedback, feedback_columns, coaching_task, coach>>

\* what the pipeline, scoring and coaching requests neither read nor write
otherVars == <<report, users, access_response>>

\* ------------------------------------------------------------- rationals
\* total_score is a Float column; the values stored are quotients of small
\* integers, kept exactly as numerator and denominator
RECURSIVE Gcd(_, _)
Gcd(a, b) == IF b = 0 THEN a ELSE Gcd(b, a % b)
Abs(n) == IF n < 0 THEN -n ELSE n
\* the quotient n / d in lowest terms
Rat(n, d) ==
    LET g == Gcd(Abs(n), Abs(d))
    IN  IF g = 0 THEN [num |-> 0, den |-> 0]
        ELSE [num |-> n \div g, den |-> d \div g]
\* NULL in a nullable Float column
NullRat == Rat(0, 0)
RatEqInt(r, k) == r.den > 0 /\ r.num = k * r.den
RatGE(r, k) == r.num >= k * r.den
RatSub(a, b) == Rat(a.num * b.den - b.num * a.den, a.den * b.den)
RatEq(a, b) ==
    IF a.den = 0 \/ b.den = 0 THEN a.den = 0 /\ b.den = 0
    ELSE a.num * b.den = b.num * a.den

\* ------------------------------------------------------------ row helpers
\* run is not a column: it is the id of the transcript whose analysis
\* inserted the row, 0 for a row that no analysis inserted.
\* question_analyses is not a column either: it is the set of the
\* session_response_analysis rows that belong to the row (deleted with it),
\* each named by the order of the sub-question it is linked to
Row(run, item, ai, reasoning, user, changed, score) ==
    [run |-> run, item |-> item, ai_answer |-> ai, ai_reasoning |-> reasoning,
     user_answer |-> user, was_changed |-> changed, score |-> score,
     question_analyses |-> {}]

\* user_answer if provided, otherwise ai_answer
final_answer(r) == IF r.user_answer # "none" THEN r.user_answer ELSE r.ai_answer

\* number of rows whose final answer is True
YesRows(rows) == Cardinality({r \in rows : final_answer(r) = "true"})


\* ------------------------------------------------------------------ Init
\* a coaching request that has not been made yet
IdleJob == [kind |-> "none", pc |-> "idle", existing |-> FALSE]

\* the columns of a coaching_feedback row that does not exist
NoColumns == [feedback_text |-> "none", audio_s3_key |-> "none"]

IdleRun == [kind |-> "none", pc |-> "idle", yes |-> 0]

\* users.role of the users that own or review sessions
Roles == {"rep", "manager", "admin"}

\* users.organization_id and users.team_id, 0 for NULL: teams 1 and 2
\* belong to organization 1, organization 2 has no team
Memberships ==
    {[organization_id |-> 0, team_id |-> 0],
     [organization_id |-> 1, team_id |-> 0],
     [organization_id |-> 1, team_id |-> 1],
     [organization_id |-> 1, team_id |-> 2],
     [organization_id |-> 2, team_id |-> 0]}

UserRows ==
    {[role |-> ro, organization_id |-> m.organization_id,
      team_id |-> m.team_id] : ro \in Roles, m \in Memberships}

\* three representatives without organization
DefaultUsers ==
    [u \in UserIds |-> [role |-> "rep", organization_id |-> 0, team_id |-> 0]]

\* no list, get or metrics request was answered yet
NoResponse ==
    [request |-> "none", user |-> 0, session_id |-> 0, code |-> "none",
     sessions |-> {}]

Init ==
    /\ status = "draft"
    /\ audio_file = "none"
    /\ transcript = 0
    /\ responses = {}
    /\ scoring_result = <<>>
    /\ score_history = <<>>
    /\ runs = [r \in Runs |-> IdleRun]
    /\ coaching_feedback = {}
    /\ feedback_columns = NoColumns
    /\ coaching_task = FALSE
    /\ coach = [j \in CoachJobs |-> IdleJob]
    /\ report = "none"
    /\ users = DefaultUsers
    /\ access_response = NoResponse

\* ---------------------------------------------------------------- scoring
\* risk band of calculate_session_score, from the percentage
CalcRiskBand(pct) ==
    IF RatGE(pct, GreenMin) THEN "green"
    ELSE IF RatGE(pct, YellowMin) THEN "yellow"
    ELSE "red"

\* risk band of submit_checklist, from the integer total
SubmitRiskBand(total) ==
    IF total >= GreenMin THEN "green"
    ELSE IF total >= YellowMin THEN "yellow"
    ELSE "red"

\* total_score / max_possible_score * 100
Percentage(rows) ==
    LET total == PointsPerItem * YesRows(rows)
        maxScore == Cardinality(rows) * PointsPerItem
    IN  IF maxScore > 0 THEN Rat(total * 100, maxScore) ELSE Rat(0, 1)

\* db.delete(previous_result) is called without await: the coroutine is
\* never run, the row is not marked deleted and the flush deletes nothing
DeletePreviousResult(table) == table

\* answer of POST /{session_id}/calculate in the current state
calculate_answer ==
    IF responses = {} THEN "400"
    ELSE IF DeletePreviousResult(scoring_result) # <<>>
         \* scoring_results.session_id is unique: the insert fails at the
         \* flush and the request's transaction is rolled back
         THEN "500"
         ELSE "201"

\* trigger_event of the ScoreHistory row
TriggerEvent(previous) ==
    IF previous # <<>> THEN "manual_calculation" ELSE "initial_calculation"

\* faulty variant of ScoreChange: a first entry carries a delta of 0
\* instead of null
ScoreChangeZero(pct, previous) ==
    IF previous # <<>> THEN RatSub(pct, previous[1].total_score) ELSE Rat(0, 1)

\* score_change of the ScoreHistory row
ScoreChange(pct, previous) ==
    IF previous # <<>> THEN RatSub(pct, previous[1].total_score) ELSE NullRat

\* POST /{session_id}/calculate
calculate_session_score ==
    LET previous == scoring_result
        pct == Percentage(responses)
        band == CalcRiskBand(pct)
        newRow == [total_score |-> pct, risk_band |-> band,
                   items_validated |-> YesRows(responses),
                   items_total |-> Cardinality(responses)]
        entry == [total_score |-> pct, risk_band |-> band,
                  items_validated |-> YesRows(responses),
                  items_total |-> Cardinality(responses),
                  score_change |-> ScoreChange(pct, previous),
                  trigger_event |-> TriggerEvent(previous)]
    IN  IF calculate_answer = "201"
        THEN /\ scoring_result' = <<newRow>>
             /\ score_history' = Append(score_history, entry)
             /\ status' = "scoring"
             /\ UNCHANGED <<coachingVars, otherVars>>
             /\ UNCHANGED <<audio_file, transcript, responses, runs>>
        ELSE UNCHANGED vars

\* answer of POST /{session_id}/checklist/submit in the current state
submit_answer == IF responses = {} THEN "404" ELSE "200"

\* POST /{session_id}/checklist/submit
submit_checklist ==
    LET items_yes == YesRows(responses)
        total == PointsPerItem * items_yes
        band == SubmitRiskBand(total)
        newRow == [total_score |-> Rat(total, 1), risk_band |-> band,
                   items_validated |-> items_yes,
                   items_total |-> Cardinality(responses)]
    IN  IF submit_answer = "200"
        THEN /\ scoring_result' = <<newRow>>
             /\ status' = "completed"
             \* background_tasks.add_task(generate_coaching_in_background)
             /\ coaching_task' = TRUE
             /\ UNCHANGED otherVars
             /\ UNCHANGED <<coaching_feedback, feedback_columns, coach>>
             /\ UNCHANGED <<audio_file, transcript, responses,
                            score_history, runs>>
        ELSE UNCHANGED vars

\* ---------------------------------------------------------------- override
\* answer of PUT /{session_id}/checklist/{item_id} in the current state
update_answer(item_id) ==
    LET matching == {r \in responses : r.item = item_id}
    IN  IF matching = {} THEN "404"
        \* scalar_one_or_none raises MultipleResultsFound
        ELSE IF Cardinality(matching) > 1 THEN "500"
        ELSE "200"

\* faulty variant of Overridden: the stored points are not recomputed
OverriddenKeepScore(old, answer) ==
    [old EXCEPT !.user_answer = answer,
                !.was_changed = (answer # old.ai_answer)]

\* the row as update_checklist_item rewrites it
Overridden(old, answer) ==
    LET upd == [old EXCEPT !.user_answer = answer,
                           !.was_changed = (answer # old.ai_answer)]
    IN  [upd EXCEPT !.score = IF final_answer(upd) = "true"
                              THEN PointsPerItem ELSE 0]

\* PUT /{session_id}/checklist/{item_id}
update_checklist_item(item_id, answer) ==
    IF update_answer(item_id) = "200"
    THEN LET old == CHOOSE r \in responses : r.item = item_id
         IN  /\ responses' = (responses \ {old}) \cup {Overridden(old, answer)}
             /\ UNCHANGED <<coachingVars, otherVars>>
             /\ UNCHANGED <<status, audio_file, transcript,
                            scoring_result, score_history, runs>>
    ELSE UNCHANGED vars

\* ---------------------------------------------------------------- analysis
\* the verdict rows built from analysis_results: item i is answered yes
\* iff i <= yes; user_answer None, was_changed False
AnalysisRows(run, yes, upTo) ==
    {Row(run, i, IF i <= yes THEN "true" ELSE "false", "text", "none", FALSE,
         IF i <= yes THEN PointsPerItem ELSE 0) : i \in 1..upTo}

\* order of the active sub-questions of a checklist item, and the
\* question_number of the question_evaluations of a completion entry
QuestionOrders == {1, 2}
QuestionNumbers == {1, 2, 3}

\* ChecklistAnalyzer.store_question_analyses: one row per evaluation whose
\* question_number is the order of a sub-question of the item
store_question_analyses(question_evaluations) ==
    {n \in question_evaluations : n \in QuestionOrders}

\* the rows with the analyses stored for them
WithAnalyses(rows, analyses) ==
    {[x EXCEPT !.question_analyses = analyses] : x \in rows}

\* the rows the upload pipeline has flushed when it reaches entry upTo:
\* the rows before it have their evaluations, the last one has none yet
UploadRows(run, yes, upTo, complete) ==
    LET rows == AnalysisRows(run, yes, upTo)
        last == {x \in rows : x.item = upTo /\ ~complete}
    IN  WithAnalyses(rows \ last, store_question_analyses(QuestionNumbers))
          \cup last

\* ChecklistAnalyzer.analyze_transcript on completion c: the entries are
\* read by position for the 10 items; a missing position or a missing key
\* raises, entries beyond the tenth are never read
analyze_transcript(c) ==
    IF ~c.parsed THEN "raise"
    ELSE IF \E idx \in Items : idx > c.entries \/ idx = c.lacks THEN "raise"
    ELSE "ok"

SetRun(r, rec) == [runs EXCEPT ![r] = rec]

\* a run that has ended keeps only how it ended
Ended(how) == [kind |-> "none", pc |-> how, yes |-> 0]

\* id of the next transcripts row: the session's rows are never deleted,
\* and session_id is unique, so the first row is the only one
NewTranscriptId == transcript + 1

\* run numbers are handed out in order: r is the next free one
NextFree(r) ==
    /\ runs[r].pc = "idle"
    /\ \A q \in Runs : q < r => runs[q].pc # "idle"

\* ------------------------------------------------------------ audio intake
\* the same without the content-type validation
upload_answer_any_type(mime_ok) ==
    IF audio_file # "none" THEN "200_existing" ELSE "continue"

\* how far POST /{session_id}/upload gets before it touches the store
upload_answer(mime_ok) ==
    IF ~mime_ok THEN "415"
    \* the existing reference is returned, nothing is started
    ELSE IF audio_file # "none" THEN "200_existing"
    ELSE "continue"

\* POST /{session_id}/upload, up to the lookup of an existing AudioFile
upload_audio_file_check(r, mime_ok) ==
    /\ NextFree(r)
    /\ IF upload_answer(mime_ok) = "continue"
       THEN /\ runs' = SetRun(r, [IdleRun EXCEPT !.kind = "upload",
                                                  !.pc = "storing"])
            /\ UNCHANGED <<coachingVars, otherVars>>
            /\ UNCHANGED <<status, audio_file, transcript, responses,
                           scoring_result, score_history>>
       ELSE UNCHANGED vars

\* storage_type chosen from the configuration alone
StorageTypeConfigured(store) == IF store = "no_s3" THEN "local" ELSE "s3"

\* file_path of the AudioFile row: the S3 URL or the path under uploads/
FilePath(storage_type) ==
    IF storage_type = "s3" THEN "https_s3_amazonaws" ELSE "uploads_path"

\* process_transcription's test of the file_path it was given
is_s3_url(path) == path = "https_s3_amazonaws"

\* where a pipeline run of the given kind reads the audio from: the upload
\* branches on its storage_type, process_transcription on the file_path
AudioSource(kind) ==
    IF kind = "upload"
    THEN IF audio_file = "s3" THEN "object_store" ELSE "local_file"
    ELSE IF is_s3_url(FilePath(audio_file)) THEN "object_store"
         ELSE "local_file"

\* storage_type of the AudioFile row
StorageType(store) == IF store = "s3_ok" THEN "s3" ELSE "local"

\* the file is read and stored, the AudioFile row is inserted and the
\* status set to ANALYZING in one commit
upload_audio_file_store(r, size_ok, store) ==
    /\ runs[r].pc = "storing"
    /\ IF ~size_ok \/ audio_file # "none"
       THEN \* 413, or audio_files.session_id is unique: the commit fails,
            \* the handler rolls back and answers 500
            /\ runs' = SetRun(r, IdleRun)
            /\ UNCHANGED <<status, audio_file>>
       ELSE /\ audio_file' = StorageType(store)
            /\ status' = "analyzing"
            /\ runs' = SetRun(r, [runs[r] EXCEPT !.pc = "transcribing"])
    /\ UNCHANGED <<coachingVars, otherVars>>
    /\ UNCHANGED <<transcript, responses, scoring_result, score_history>>

\* steps 1 and 2 of the upload pipeline: transcribe, save the Transcript
upload_transcribe(r, ok) ==
    /\ runs[r].kind = "upload"
    /\ runs[r].pc = "transcribing"
    /\ IF ok /\ transcript = 0
       THEN /\ transcript' = NewTranscriptId
            /\ runs' = SetRun(r, [runs[r] EXCEPT !.pc = "analyzing"])
            /\ UNCHANGED status
       ELSE \* the speech-to-text call raised, or transcripts.session_id
            \* is unique and the commit failed: status failed, 500
            /\ status' = "failed"
            /\ runs' = SetRun(r, Ended("failed"))
            /\ UNCHANGED transcript
    /\ UNCHANGED <<coachingVars, otherVars>>
    /\ UNCHANGED <<audio_file, responses, scoring_result, score_history>>

\* steps 3 and 4: analyze_transcript, then delete the old responses and
\* commit
upload_analyze(r, ok, yes) ==
    /\ runs[r].kind = "upload"
    /\ runs[r].pc = "analyzing"
    /\ IF ok
       THEN /\ responses' = {}
            /\ runs' = SetRun(r, [runs[r] EXCEPT !.pc = "replacing",
                                                 !.yes = yes])
            /\ UNCHANGED status
       ELSE /\ status' = "failed"
            /\ runs' = SetRun(r, Ended("failed"))
            /\ UNCHANGED responses
    /\ UNCHANGED <<coachingVars, otherVars>>
    /\ UNCHANGED <<audio_file, transcript, scoring_result, score_history>>

\* steps 5 and 6: one SessionResponse per item, flushed one by one, with
\* its question evaluations; then status pending_review and commit.
\* flush_ok = FALSE: a flush raises, the transaction is rolled back and
\* the commit in the except branch raises as well.
\* bad: position of a malformed question_evaluations entry in the
\* completion that analyze_transcript returned (0: none)
upload_store_responses(r, flush_ok, bad) ==
    /\ runs[r].kind = "upload"
    /\ runs[r].pc = "replacing"
    /\ IF ~flush_ok
       THEN /\ runs' = SetRun(r, Ended("failed"))
            /\ UNCHANGED <<status, responses>>
       ELSE IF bad # 0
       THEN \* store_question_analyses raises on the malformed entry; the
            \* except branch sets failed and commits the rows flushed so far
            /\ responses' = responses \cup
                              UploadRows(transcript, runs[r].yes, bad, FALSE)
            /\ status' = "failed"
            /\ runs' = SetRun(r, Ended("failed"))
       ELSE /\ responses' = responses \cup
                   UploadRows(transcript, runs[r].yes, NumItems, TRUE)
            /\ status' = "pending_review"
            /\ runs' = SetRun(r, Ended("done"))
    /\ UNCHANGED <<coachingVars, otherVars>>
    /\ UNCHANGED <<audio_file, transcript, scoring_result, score_history>>

\* ------------------------------------------------------------ transcription
\* answer of POST /{session_id}/transcribe in the current state: the
\* request only checks that an AudioFile exists and no Transcript exists
start_transcription_answer ==
    IF audio_file = "none" THEN "404"
    ELSE IF transcript # 0 THEN "409"
    ELSE "202"

\* POST /{session_id}/transcribe: sets ANALYZING and schedules the
\* background task
start_transcription(r) ==
    /\ NextFree(r)
    /\ IF start_transcription_answer = "202"
       THEN /\ status' = "analyzing"
            /\ runs' = SetRun(r, [IdleRun EXCEPT !.kind = "task",
                                                  !.pc = "transcribing"])
            /\ UNCHANGED <<coachingVars, otherVars>>
            /\ UNCHANGED <<audio_file, transcript, responses,
                           scoring_result, score_history>>
       ELSE UNCHANGED vars

\* process_transcription, up to the commit of the Transcript
process_transcription_transcribe(r, ok) ==
    /\ runs[r].kind = "task"
    /\ runs[r].pc = "transcribing"
    /\ IF ok /\ transcript = 0
       THEN /\ transcript' = NewTranscriptId
            /\ runs' = SetRun(r, [runs[r] EXCEPT !.pc = "analyzing"])
            /\ UNCHANGED status
       ELSE \* download or speech-to-text raised, or the unique
            \* transcripts.session_id rejected the row: status failed
            /\ status' = "failed"
            /\ runs' = SetRun(r, Ended("failed"))
            /\ UNCHANGED transcript
    /\ UNCHANGED <<coachingVars, otherVars>>
    /\ UNCHANGED <<audio_file, responses, scoring_result, score_history>>

\* process_transcription: analyze_transcript, then delete the old
\* responses and commit
process_transcription_analyze(r, ok, yes) ==
    /\ runs[r].kind = "task"
    /\ runs[r].pc = "analyzing"
    /\ IF ok
       THEN /\ responses' = {}
            /\ runs' = SetRun(r, [runs[r] EXCEPT !.pc = "replacing",
                                                 !.yes = yes])
            /\ UNCHANGED status
       ELSE /\ status' = "failed"
            /\ runs' = SetRun(r, Ended("failed"))
            /\ UNCHANGED responses
    /\ UNCHANGED <<coachingVars, otherVars>>
    /\ UNCHANGED <<audio_file, transcript, scoring_result, score_history>>

\* process_transcription: the new SessionResponse rows and the status
\* pending_review are committed together; if the commit raises, nothing of
\* it is stored and the except branch sets failed in a fresh session
process_transcription_store(r, commit_ok) ==
    /\ runs[r].kind = "task"
    /\ runs[r].pc = "replacing"
    /\ IF commit_ok
       THEN /\ responses' = responses \cup
                              AnalysisRows(transcript, runs[r].yes, NumItems)
            /\ status' = "pending_review"
            /\ runs' = SetRun(r, Ended("done"))
       ELSE /\ status' = "failed"
            /\ runs' = SetRun(r, Ended("failed"))
            /\ UNCHANGED responses
    /\ UNCHANGED <<coachingVars, otherVars>>
    /\ UNCHANGED <<audio_file, transcript, scoring_result, score_history>>

\* ------------------------------------------------------ other requests
\* POST /{session_id}/responses/initialize: one empty response per active
\* checklist item, unless the session already has responses.
\* insert_ok: the handler builds the rows with the keywords of
\* models/session.py (is_validated, confidence, ...); the insert succeeds
\* where the table has these columns and raises, inserting nothing, where
\* the table is the one migration 6d8044164f8a leaves
initialize_session_responses(insert_ok) ==
    /\ IF responses # {} \/ ~insert_ok
       THEN UNCHANGED responses
       ELSE responses' = {Row(0, i, "none", "none", "none", FALSE, 0) :
                             i \in Items}
    /\ UNCHANGED <<coachingVars, otherVars>>
    /\ UNCHANGED <<status, audio_file, transcript, scoring_result,
                   score_history, runs>>

\* values of sessions.status: the SessionStatus enum and the value the
\* pipeline writes when the checklist is ready for review
SessionStatus == {"draft", "uploading", "processing", "analyzing",
                  "scoring", "completed", "failed", "pending_review"}

\* ---------------------------------------------------------------- coaching
\* results of the completion call: a JSON document, text that does not
\* parse, or an exception
CoachCompletions == {"ok", "bad_json", "raise"}

\* results of the narration: audio stored in the object store, the
\* text-to-speech call fails, or the put of the audio fails
Narrations == {"ok", "tts_failed", "upload_failed"}

\* a selection of the gaps by the AI verdict instead of the points
fetch_gap_data_by_ai(rows) == {x \in rows : x.ai_answer # "true"}

\* CoachingService.fetch_gap_data: the responses with 0 points
fetch_gap_data(rows) == {x \in rows : x.score = 0}

\* CoachingService.generate_coaching_feedback as a caller sees it: db is a
\* required parameter, so a call without it raises TypeError before the
\* body runs; without gaps the fixed text is returned and the completion
\* service is not called; a completion that does not parse gives the
\* fallback text, any other exception is raised again
coaching_service_call(db_passed, rows, completion) ==
    IF ~db_passed THEN "TypeError"
    ELSE IF fetch_gap_data(rows) = {} THEN "excellent"
    ELSE IF completion = "ok" THEN "generated"
    ELSE IF completion = "bad_json" THEN "fallback"
    ELSE "raise"

\* the values of coaching_service_call that are a feedback_text
FeedbackTexts == {"excellent", "generated", "fallback"}

\* number of requests the call above sends to the completion service
completion_calls(db_passed, rows) ==
    IF db_passed /\ fetch_gap_data(rows) # {} THEN 1 ELSE 0

\* CoachingService.generate_coaching_audio: every exception is caught and
\* None returned; a failed put falls back to a local copy
generate_coaching_audio(narration) ==
    IF narration = "tts_failed" THEN "None"
    ELSE IF narration = "upload_failed" THEN "local"
    ELSE "s3"

\* audio_s3_key of the new row: the s3_key entry of the audio data, which
\* is None for a local copy
audio_s3_key(audio_data) == IF audio_data = "s3" THEN "s3_key" ELSE "none"

\* the columns of the row built from the service's results
NewColumns(text, narration) ==
    [feedback_text |-> text,
     audio_s3_key |-> audio_s3_key(generate_coaching_audio(narration))]

\* an insert into a table without the unique constraint
coaching_insert_any(table) == TRUE

\* coaching_feedback.session_id is unique: an insert succeeds only when the
\* session has no row
coaching_insert_ok(table) == table = {}

SetJob(j, rec) == [coach EXCEPT ![j] = rec]

\* a coaching request that has returned
EndedJob == [kind |-> "none", pc |-> "ended", existing |-> FALSE]

\* job numbers are handed out in order: j is the next free one
NextFreeJob(j) ==
    /\ coach[j].pc = "idle"
    /\ \A q \in CoachJobs : q < j => coach[q].pc # "idle"

\* id of the row a background task would insert
TaskFeedbackId == MaxCoach + 1

\* the same lookups without the scoring lookup
coaching_answer_unscored ==
    IF coaching_feedback # {} THEN "201_existing"
    ELSE "continue"

\* answer of POST /{session_id}/coaching before any external call
coaching_answer ==
    IF coaching_feedback # {} THEN "201_existing"
    ELSE IF scoring_result = <<>> THEN "400"
    ELSE "continue"

\* POST /{session_id}/coaching up to the call of the coaching service
generate_coaching_feedback_check(j) ==
    /\ NextFreeJob(j)
    /\ IF coaching_answer = "continue"
       THEN /\ coach' = SetJob(j, [IdleJob EXCEPT !.kind = "post",
                                                  !.pc = "generating"])
            /\ UNCHANGED otherVars
            /\ UNCHANGED <<status, audio_file, transcript, responses,
                           scoring_result, score_history, runs,
                           coaching_feedback, feedback_columns,
                           coaching_task>>
       ELSE UNCHANGED vars

\* POST /{session_id}/coaching: the service returns or raises, the audio is
\* generated, then the CoachingFeedback row is inserted and committed
generate_coaching_feedback_save(j, completion, narration) ==
    LET text == coaching_service_call(TRUE, responses, completion)
    IN  /\ coach[j].kind = "post"
        /\ coach[j].pc = "generating"
        /\ IF text \in FeedbackTexts /\ coaching_insert_ok(coaching_feedback)
           THEN /\ coaching_feedback' = coaching_feedback \cup {j}
                /\ feedback_columns' = NewColumns(text, narration)
                /\ coach' = SetJob(j, [coach[j] EXCEPT !.pc = "saved"])
           ELSE \* 500: nothing is stored
                /\ coach' = SetJob(j, EndedJob)
                /\ UNCHANGED <<coaching_feedback, feedback_columns>>
        /\ UNCHANGED otherVars
        /\ UNCHANGED <<status, audio_file, transcript, responses,
                       scoring_result, score_history, runs, coaching_task>>

\* POST /{session_id}/coaching: second commit, status COMPLETED
generate_coaching_feedback_complete(j) ==
    /\ coach[j].kind = "post"
    /\ coach[j].pc = "saved"
    /\ status' = "completed"
    /\ coach' = SetJob(j, EndedJob)
    /\ UNCHANGED otherVars
    /\ UNCHANGED <<audio_file, transcript, responses, scoring_result,
                   score_history, runs, coaching_feedback, feedback_columns,
                   coaching_task>>

\* POST /{session_id}/coaching/regenerate up to the call of the coaching
\* service: the existing row is deleted and the deletion committed, then
\* the scoring result is looked up (400 without one)
regenerate_coaching_feedback_delete(j) ==
    /\ NextFreeJob(j)
    /\ coaching_feedback' = {}
    /\ feedback_columns' = NoColumns
    /\ IF scoring_result = <<>>
       THEN UNCHANGED coach
       ELSE coach' = SetJob(j, [kind |-> "regen", pc |-> "generating",
                                existing |-> coaching_feedback # {}])
    /\ UNCHANGED otherVars
    /\ UNCHANGED <<status, audio_file, transcript, responses, scoring_result,
                   score_history, runs, coaching_task>>

\* POST /{session_id}/coaching/regenerate: the service returns or raises,
\* the audio is generated, then the new row is inserted and committed
regenerate_coaching_feedback_save(j, completion, narration) ==
    LET text == coaching_service_call(TRUE, responses, completion)
    IN  /\ coach[j].kind = "regen"
        /\ coach[j].pc = "generating"
        /\ IF text \in FeedbackTexts /\ coaching_insert_ok(coaching_feedback)
           THEN /\ coaching_feedback' = coaching_feedback \cup {j}
                /\ feedback_columns' = NewColumns(text, narration)
           ELSE UNCHANGED <<coaching_feedback, feedback_columns>>
        /\ coach' = SetJob(j, EndedJob)
        /\ UNCHANGED otherVars
        /\ UNCHANGED <<status, audio_file, transcript, responses,
                       scoring_result, score_history, runs, coaching_task>>

\* the reports row after a PDF generation that finds the row in state
\* existing: a row that is_generated is returned as it is; otherwise the
\* PDF is built (pdf_ok: the report service returns) and the row is
\* inserted or updated with is_generated = True
GeneratedReport(existing, pdf_ok) ==
    IF existing = "generated" THEN existing
    ELSE IF pdf_ok THEN "generated"
    ELSE existing

\* the background task that submit_checklist schedules: it skips coaching
\* when a row exists, returns when there is no scoring result, and
\* otherwise calls the coaching service without db; the exception is
\* logged by the task's except branch. The report is generated after the
\* coaching part, when that part neither returned nor raised
generate_coaching_in_background(completion, narration, pdf_ok) ==
    LET text == coaching_service_call(FALSE, responses, completion)
        generates == /\ coaching_feedback = {}
                     /\ scoring_result # <<>>
                     /\ text \in FeedbackTexts
                     /\ coaching_insert_ok(coaching_feedback)
    IN  /\ coaching_task
        /\ coaching_task' = FALSE
        /\ IF generates
           THEN /\ coaching_feedback' = coaching_feedback \cup {TaskFeedbackId}
                /\ feedback_columns' = NewColumns(text, narration)
           ELSE UNCHANGED <<coaching_feedback, feedback_columns>>
        /\ IF (coaching_feedback # {} \/ generates) /\ scoring_result # <<>>
           THEN report' = GeneratedReport(report, pdf_ok)
           ELSE UNCHANGED report
        /\ UNCHANGED <<users, access_response>>
        /\ UNCHANGED <<status, audio_file, transcript, responses,
                       scoring_result, score_history, runs, coach>>

\* PATCH /{session_id}: every field the request sets is written to the
\* session; status may be any value of the enum, whatever the session's
\* current status is
update_session(new_status) ==
    /\ status' = new_status
    /\ UNCHANGED <<coachingVars, otherVars>>
    /\ UNCHANGED <<audio_file, transcript, responses, scoring_result,
                   score_history, runs>>

\* ------------------------------------------------------------ reports
\* sessions.user_id of the session whose pipeline is modelled
SessionOwner == 1

\* answer of POST /{session_id}/report for user user_id when the reports
\* row is in state existing
generate_report_answer(user_id, existing, pdf_ok) ==
    IF user_id # SessionOwner THEN "404"
    ELSE IF existing = "generated" THEN "200"
    ELSE IF scoring_result = <<>> THEN "400"
    ELSE IF pdf_ok THEN "200"
    ELSE "500"

\* the reports row that generate_report leaves
generate_report_row(user_id, existing, pdf_ok) ==
    IF generate_report_answer(user_id, existing, pdf_ok) = "200"
    THEN GeneratedReport(existing, pdf_ok)
    ELSE existing

\* POST /{session_id}/report
generate_report(user_id, pdf_ok) ==
    /\ report' = generate_report_row(user_id, report, pdf_ok)
    /\ UNCHANGED <<coachingVars, users, access_response>>
    /\ UNCHANGED <<status, audio_file, transcript, responses, scoring_result,
                   score_history, runs>>

\* the reports row after the first commit of regenerate_report: the row
\* of the session, found by session_id alone, gets is_generated = False
ResetReport(existing) ==
    IF existing = "none" THEN "none" ELSE "not_generated"

\* POST /{session_id}/report/regenerate: reset, commit, generate_report
regenerate_report(user_id, pdf_ok) ==
    /\ report' = generate_report_row(user_id, ResetReport(report), pdf_ok)
    /\ UNCHANGED <<coachingVars, users, access_response>>
    /\ UNCHANGED <<status, audio_file, transcript, responses, scoring_result,
                   score_history, runs>>

\* ------------------------------------------------------------ access
\* the sessions table: one session per user, session s of user s
Sessions == UserIds

\* get_session_access_filter(current_user) applied to session s
get_session_access_filter(current_user, s) ==
    LET me == users[current_user]
        owner == users[s]
    IN  IF me.role = "admin"
        THEN IF me.organization_id # 0
             THEN owner.organization_id = me.organization_id
             ELSE s = current_user
        ELSE IF me.role = "manager"
        THEN IF me.team_id # 0
             THEN owner.team_id = me.team_id
             ELSE s = current_user
        ELSE s = current_user

\* GET /sessions/: the sessions that pass the filter
list_sessions(current_user) ==
    /\ access_response' =
           [request |-> "list", user |-> current_user, session_id |-> 0,
            code |-> "200",
            sessions |-> {s \in Sessions :
                             get_session_access_filter(current_user, s)}]
    /\ UNCHANGED <<coachingVars, report, users>>
    /\ UNCHANGED <<status, audio_file, transcript, responses, scoring_result,
                   score_history, runs>>

\* GET /sessions/{session_id}: 404 unless check_session_access
get_session(current_user, session_id) ==
    LET has_access == get_session_access_filter(current_user, session_id)
    IN  /\ access_response' =
               [request |-> "get", user |-> current_user,
                session_id |-> session_id,
                code |-> IF has_access THEN "200" ELSE "404",
                sessions |-> IF has_access THEN {session_id} ELSE {}]
        /\ UNCHANGED <<coachingVars, report, users>>
        /\ UNCHANGED <<status, audio_file, transcript, responses,
                       scoring_result, score_history, runs>>

\* GET /users/me/metrics: sessions is the set that total_sessions counts
get_current_user_metrics(current_user) ==
    /\ access_response' =
           [request |-> "metrics", user |-> current_user, session_id |-> 0,
            code |-> "200",
            sessions |-> {s \in Sessions : s = current_user}]
    /\ UNCHANGED <<coachingVars, report, users>>
    /\ UNCHANGED <<status, audio_file, transcript, responses, scoring_result,
                   score_history, runs>>

\* ------------------------------------------------------------------ Next
StoreOutcomes == {"s3_ok", "s3_failed", "no_s3"}

Next ==
    \/ calculate_session_score
    \/ submit_checklist
    \/ \E i \in OverrideItems, a \in {"true", "false"} :
          update_checklist_item(i, a)
    \/ \E r \in Runs, m \in BOOLEAN : upload_audio_file_check(r, m)
    \/ \E r \in Runs, z \in BOOLEAN, st \in StoreOutcomes :
          upload_audio_file_store(r, z, st)
    \/ \E r \in Runs, ok \in BOOLEAN : upload_transcribe(r, ok)
    \/ \E r \in Runs, c \in Completions, y \in YesCounts :
          upload_analyze(r, analyze_transcript(c) = "ok", y)
    \/ \E r \in Runs, ok \in BOOLEAN, b \in BadItems :
          upload_store_responses(r, ok, b)
    \/ \E r \in Runs : start_transcription(r)
    \/ \E r \in Runs, ok \in BOOLEAN : process_transcription_transcribe(r, ok)
    \/ \E r \in Runs, c \in Completions, y \in YesCounts :
          process_transcription_analyze(r, analyze_transcript(c) = "ok", y)
    \/ \E r \in Runs, ok \in BOOLEAN : process_transcription_store(r, ok)
    \/ \E ok \in BOOLEAN : initialize_session_responses(ok)

\* the pipelines with the scoring and override requests; the task a submit
\* schedules runs under SpecCoaching
Spec == Init /\ [][Next]_vars

\* the same requests, and PATCH requests that set the status
NextSession ==
    \/ Next
    \/ \E st \in SessionStatus : update_session(st)

SpecSession == Init /\ [][NextSession]_vars

\* the requests that write the Score Snapshot or the Coaching Feedback,
\* with the upload pipeline that gives a session its verdicts
NextCoaching ==
    \/ calculate_session_score
    \/ submit_checklist
    \/ \E r \in Runs, m \in BOOLEAN : upload_audio_file_check(r, m)
    \/ \E r \in Runs, z \in BOOLEAN, st \in StoreOutcomes :
          upload_audio_file_store(r, z, st)
    \/ \E r \in Runs, ok \in BOOLEAN : upload_transcribe(r, ok)
    \/ \E r \in Runs, c \in Completions, y \in YesCounts :
          upload_analyze(r, analyze_transcript(c) = "ok", y)
    \/ \E r \in Runs, ok \in BOOLEAN, b \in BadItems :
          upload_store_responses(r, ok, b)
    \/ \E c \in CoachCompletions, n \in Narrations, p \in BOOLEAN :
          generate_coaching_in_background(c, n, p)
    \/ \E j \in CoachJobs : generate_coaching_feedback_check(j)
    \/ \E j \in CoachJobs, c \in CoachCompletions, n \in Narrations :
          generate_coaching_feedback_save(j, c, n)
    \/ \E j \in CoachJobs : generate_coaching_feedback_complete(j)
    \/ \E j \in CoachJobs : regenerate_coaching_feedback_delete(j)
    \/ \E j \in CoachJobs, c \in CoachCompletions, n \in Narrations :
          regenerate_coaching_feedback_save(j, c, n)

SpecCoaching == Init /\ [][NextCoaching]_vars

\* an analysed session: the upload pipeline has stored the audio, the
\* Transcript and the 10 verdicts of a completion with y true answers
InitService ==
    /\ status = "pending_review"
    /\ audio_file = "local"
    /\ transcript = 1
    /\ \E y \in ServiceYes : responses = UploadRows(1, y, NumItems, TRUE)
    /\ scoring_result = <<>>
    /\ score_history = <<>>
    /\ runs = [r \in Runs |-> IF r = 1 THEN Ended("done") ELSE IdleRun]
    /\ coaching_feedback = {}
    /\ feedback_columns = NoColumns
    /\ coaching_task = FALSE
    /\ coach = [j \in CoachJobs |-> IdleJob]
    /\ report = "none"
    /\ users = DefaultUsers
    /\ access_response = NoResponse

\* review, scoring and coaching of an analysed session, with every result
\* of the completion and of the narration
NextService ==
    \/ calculate_session_score
    \/ submit_checklist
    \/ \E i \in ServiceOverrideItems, a \in {"true", "false"} :
          update_checklist_item(i, a)
    \/ \E c \in CoachCompletions, n \in Narrations, p \in BOOLEAN :
          generate_coaching_in_background(c, n, p)
    \/ \E u \in UserIds, p \in BOOLEAN : generate_report(u, p)
    \/ \E u \in UserIds, p \in BOOLEAN : regenerate_report(u, p)
    \/ \E j \in CoachJobs : generate_coaching_feedback_check(j)
    \/ \E j \in CoachJobs, c \in CoachCompletions, n \in Narrations :
          generate_coaching_feedback_save(j, c, n)
    \/ \E j \in CoachJobs : generate_coaching_feedback_complete(j)
    \/ \E j \in CoachJobs : regenerate_coaching_feedback_delete(j)
    \/ \E j \in CoachJobs, c \in CoachCompletions, n \in Narrations :
          regenerate_coaching_feedback_save(j, c, n)

SpecService == InitService /\ [][NextService]_vars

\* the users of up to two organizations, each with one session
InitAccess ==
    /\ status = "draft"
    /\ audio_file = "none"
    /\ transcript = 0
    /\ responses = {}
    /\ scoring_result = <<>>
    /\ score_history = <<>>
    /\ runs = [r \in Runs |-> IdleRun]
    /\ coaching_feedback = {}
    /\ feedback_columns = NoColumns
    /\ coaching_task = FALSE
    /\ coach = [j \in CoachJobs |-> IdleJob]
    /\ report = "none"
    /\ users \in [UserIds -> UserRows]
    /\ access_response = NoResponse

\* the requests that show sessions to a user
NextAccess ==
    \/ \E u \in UserIds : list_sessions(u)
    \/ \E u \in UserIds, s \in Sessions : get_session(u, s)
    \/ \E u \in UserIds : get_current_user_metrics(u)

SpecAccess == InitAccess /\ [][NextAccess]_vars

TypeOK ==
    /\ status \in SessionStatus
    /\ audio_file \in {"none", "s3", "local"}
    /\ transcript \in {0, 1}
    /\ \A r \in responses : r.item \in Items /\ r.ai_answer \in Tri
                            /\ r.user_answer \in Tri
                            /\ r.question_analyses \subseteq QuestionOrders
    /\ report \in {"none", "not_generated", "generated"}
    /\ users \in [UserIds -> UserRows]
    /\ access_response.sessions \subseteq Sessions
    /\ Len(scoring_result) <= 1
    /\ coaching_feedback \subseteq 1..TaskFeedbackId
    /\ feedback_columns.feedback_text \in FeedbackTexts \cup {"none"}
    /\ feedback_columns.audio_s3_key \in {"none", "s3_key"}
    /\ coaching_task \in BOOLEAN
    /\ \A j \in CoachJobs :
          /\ coach[j].kind \in {"none", "post", "regen"}
          /\ coach[j].pc \in {"idle", "generating", "saved", "ended"}

\* =================================================================== claims

\* effective verdict of a row as the specification defines it: the human
\* override if present, else the AI verdict
EffectiveVerdict(r) == IF r.user_answer = "none" THEN r.ai_answer ELSE r.user_answer
TrueVerdicts(rows) == Cardinality({r \in rows : EffectiveVerdict(r) = "true"})

\* the band the specification assigns to a score
BandOf(score) ==
    IF score >= 80 THEN "green" ELSE IF score >= 60 THEN "yellow" ELSE "red"

\* a step in which a scoring operation wrote the Score Snapshot
CalculateStep == calculate_answer = "201" /\ calculate_session_score
SubmitStep == submit_answer = "200" /\ submit_checklist

\* a scoring step that left a snapshot different from the one before it (a
\* submit that rewrites the same snapshot on a completed session changes no
\* variable)
ScoringStep == scoring_result' # scoring_result /\ (CalculateStep \/ SubmitStep)

\* a step in which update_checklist_item(i, a) changed the row of item i
\* (repeating the override a row already holds changes no variable)
OverrideStep(i, a) ==
    /\ responses' # responses
    /\ update_answer(i) = "200"
    /\ update_checklist_item(i, a)

\* C1: every scoring operation (POST /calculate, checklist submit) stores
\* score = 10 x (number of effectively true verdicts) and the band green
\* iff score >= 80, yellow iff 60 <= score < 80, red iff score < 60.
C1_ScoreIsTenPerTrueVerdict ==
    [][ScoringStep =>
         /\ RatEqInt(scoring_result'[1].total_score, 10 * TrueVerdicts(responses))
         /\ scoring_result'[1].risk_band = BandOf(10 * TrueVerdicts(responses))]_vars

\* a run has stored its verdicts and set pending_review
AnalysisHasRun == \E r \in Runs : runs[r].pc = "done"

CompleteSet(rows) ==
    /\ Cardinality(rows) = NumItems
    /\ \A i \in Items : \E x \in rows : x.item = i
    /\ \A x, y \in rows : x.run = y.run

\* C3: a reader of the committed verdicts never observes an emptied set, a
\* partial set or a mix of two runs: the set is complete, and a non-empty
\* set is never followed by an empty one.
C3_ReaderSeesCompleteSet ==
    /\ [](responses = {} \/ CompleteSet(responses))
    /\ [][responses # {} => responses' # {}]_vars

\* C4: whenever a Score Snapshot exists, its score is 10 x the number of
\* the session's current verdicts that are effectively true.
C4_SnapshotMatchesVerdicts ==
    scoring_result # <<>> =>
        RatEqInt(scoring_result[1].total_score, 10 * TrueVerdicts(responses))

\* C5: every scoring invocation on a session that has verdicts succeeds and
\* appends exactly one Score History entry.
C5_EveryScoringAppendsHistory ==
    /\ [](responses # {} => calculate_answer = "201" /\ submit_answer = "200")
    /\ [][(responses # {} /\ (calculate_session_score \/ submit_checklist)) =>
            Len(score_history') = Len(score_history) + 1]_vars

C7_SnapshotIsLatestHistory ==
    /\ [](scoring_result # <<>> =>
            /\ Len(score_history) > 0
            /\ LET e == score_history[Len(score_history)]
                   s == scoring_result[1]
               IN  /\ RatEq(s.total_score, e.total_score)
                   /\ s.risk_band = e.risk_band
                   /\ s.items_validated = e.items_validated
                   /\ s.items_total = e.items_total)
    /\ [][/\ Len(score_history') >= Len(score_history)
          /\ \A i \in 1..Len(score_history) :
                score_history'[i] = score_history[i]]_vars

\* the row of item i, when there is exactly one
RowOf(rows, i) == CHOOSE r \in rows : r.item = i

\* C8: after update_checklist_item sets an override on a verdict, the
\* effective verdict is the override, the stored points are 10 iff the
\* override is true, changed is set iff the override differs from the AI
\* verdict, the AI verdict, the AI rationale and every other verdict are
\* untouched, and a scoring run counts the overridden verdicts by their
\* override.
C8_OverridePrecedence ==
    [][/\ \A i \in OverrideItems, a \in {"true", "false"} :
             OverrideStep(i, a) =>
                LET old == RowOf(responses, i)
                    new == RowOf(responses', i)
                IN  /\ EffectiveVerdict(new) = a
                    /\ new.score = (IF a = "true" THEN 10 ELSE 0)
                    /\ new.was_changed = (a # old.ai_answer)
                    /\ new.ai_answer = old.ai_answer
                    /\ new.ai_reasoning = old.ai_reasoning
                    /\ responses' \ {new} = responses \ {old}
                    /\ Cardinality(responses') = Cardinality(responses)
       /\ ScoringStep =>
             scoring_result'[1].items_validated = TrueVerdicts(responses)]_vars

\* C8 witness: a verdict the AI answered no is overridden to yes, holds 10
\* points, and the snapshot written afterwards counts it
C8_Witness ==
    /\ \E r \in responses : /\ r.ai_answer = "false"
                            /\ r.user_answer = "true"
                            /\ r.was_changed
                            /\ r.score = 10
    /\ Cardinality(responses) = NumItems
    /\ scoring_result # <<>>
    /\ scoring_result[1].items_validated = 8
    /\ scoring_result[1].risk_band = "green"

\* positions of a pipeline run that is in flight
InFlight == {"transcribing", "analyzing", "replacing"}
RunsInFlight == {r \in Runs : runs[r].pc \in InFlight}

\* C9: at most one pipeline run is in flight for the session, and while
\* one is, a transcribe request is answered 409 and an upload request does
\* not get past the existing-audio lookup.
C9_OneRunInFlight ==
    /\ Cardinality(RunsInFlight) <= 1
    /\ RunsInFlight # {} =>
          /\ start_transcription_answer = "409"
          /\ upload_answer(TRUE) # "continue"

\* C10: a transcribe request on a session that is failed, or that already
\* has a Transcript, is accepted.
C10_RetranscribeAccepted ==
    (audio_file # "none" /\ (status = "failed" \/ transcript # 0)) =>
        start_transcription_answer = "202"

\* a completion with exactly one entry, with verdict and rationale, for
\* each of the 10 criteria
WellFormed(c) == c.parsed /\ c.entries = NumItems /\ c.lacks = 0

\* a step in which a pipeline run received completion c from the analysis
AnalyzeStep(r, c) ==
    /\ runs[r].pc = "analyzing"
    /\ \E y \in YesCounts :
          \/ upload_analyze(r, analyze_transcript(c) = "ok", y)
          \/ process_transcription_analyze(r, analyze_transcript(c) = "ok", y)

\* C11: when the completion does not hold exactly one well-formed entry
\* for each of the 10 criteria, analyze_transcript raises: the run ends
\* there, it writes no Criterion Verdict and the session does not become
\* pending_review.
C11_MalformedCompletionRaises ==
    [][\A r \in Runs, c \in Completions :
          (~WellFormed(c) /\ AnalyzeStep(r, c)) =>
              /\ analyze_transcript(c) = "raise"
              /\ runs'[r].pc = "failed"
              /\ responses' = responses
              /\ status' # "pending_review"]_vars

\* run r ends in this step by setting the session to failed
RunFails(r) ==
    /\ runs[r].pc \in {"transcribing", "analyzing", "replacing"}
    /\ runs'[r].pc = "failed"
    /\ status' = "failed"

\* every item has a verdict in rows
CoversAllItems(rows) == \A i \in Items : \E x \in rows : x.item = i

\* C12: when a pipeline run ends by setting the session to failed, the
\* committed Criterion Verdicts are none or a set with a verdict for every
\* one of the 10 criteria, never a proper subset.
C12_FailedRunLeavesNoPartialSet ==
    [][\A r \in Runs :
          RunFails(r) => (responses' = {} \/ CoversAllItems(responses'))]_vars

\* run r stores its verdicts and ends successfully in this step
RunSucceeds(r) == runs[r].pc = "replacing" /\ runs'[r].pc = "done"

AudioIntake == audio_file = "none" /\ audio_file' # "none"

\* C14: a successful audio intake leaves the session in processing, and
\* the status is analyzing only when the session's Transcript is stored.
C14_AnalyzingOnlyAfterTranscription ==
    /\ [](status = "analyzing" => transcript # 0)
    /\ [][AudioIntake => status' = "processing"]_vars

\* C15: a session enters failed only from processing, analyzing or
\* scoring, never from draft, uploading, pending_review or completed.
C15_FailedOnlyFromActiveStatus ==
    [][(status # "failed" /\ status' = "failed") =>
          status \in {"processing", "analyzing", "scoring"}]_vars

\* a step in which the task scheduled by a submission runs
BackgroundTaskStep(completion) ==
    /\ coaching_task
    /\ \E n \in Narrations, p \in BOOLEAN :
          generate_coaching_in_background(completion, n, p)

\* C16: a submission on a pending_review session completes it with a
\* recomputed Score Snapshot and schedules the coaching task, and the task,
\* run on a session with a snapshot and with a completion call that does
\* not fail, leaves the session with a Coaching Feedback row.
C16_SubmitCompletesAndCoaches ==
    [][/\ (status = "pending_review" /\ SubmitStep) =>
            /\ status' = "completed"
            /\ scoring_result' # <<>>
            /\ coaching_task'
       /\ (scoring_result # <<>> /\ BackgroundTaskStep("ok")) =>
            coaching_feedback' # {}]_vars

\* verdicts written by an analysis run, not by initialize
AnalysisVerdicts == {x \in responses : x.run # 0}

C18_FeedbackRequiresSnapshot ==
    /\ [](coaching_feedback # {} => scoring_result # <<>>)
    /\ [][/\ (scoring_result = <<>> /\ coaching_feedback = {}) =>
                coaching_feedback' = {}
          /\ (scoring_result # <<>> /\ coaching_feedback # {}) =>
                scoring_result' # <<>>]_vars

\* a POST coaching request has stored the session's feedback, and a later
\* coaching request is in progress
C18_Witness ==
    /\ scoring_result # <<>>
    /\ \E j \in CoachJobs : j \in coaching_feedback
    /\ \E j \in CoachJobs : coach[j].pc = "generating"

\* a step of a POST coaching request
PostCoachingStep(j) ==
    \/ generate_coaching_feedback_check(j)
    \/ \E c \in CoachCompletions, n \in Narrations :
          generate_coaching_feedback_save(j, c, n)
    \/ generate_coaching_feedback_complete(j)

\* C19: a session never has two Coaching Feedback rows, and a POST coaching
\* request on a session that has feedback answers with the existing row,
\* starts no call of the coaching service and leaves the row as it is.
C19_AtMostOneFeedback ==
    /\ [](Cardinality(coaching_feedback) <= 1)
    /\ [](coaching_feedback # {} => coaching_answer = "201_existing")
    /\ [][\A j \in CoachJobs :
            (coaching_feedback # {} /\ PostCoachingStep(j)) =>
               /\ coaching_feedback' = coaching_feedback
               /\ (coach[j].pc = "idle" => coach'[j].pc = "idle")]_vars

\* one POST coaching request has stored the row while another, past its
\* lookup, is still calling the coaching service
C19_Witness ==
    \E j, k \in CoachJobs :
        /\ j # k
        /\ coaching_feedback = {j}
        /\ coach[k].kind = "post"
        /\ coach[k].pc = "generating"

\* C20: an audio intake for a session that has an Audio Reference is
\* answered with Conflict, and the session's reference is never replaced
\* or joined by a second one.
C20_SecondIntakeConflict ==
    /\ [](audio_file # "none" => upload_answer(TRUE) = "409")
    /\ [][audio_file # "none" => audio_file' = audio_file]_vars

\* the storing step of an upload whose object-store put raises
PutFailsStep(r) ==
    /\ runs[r].pc = "storing"
    /\ audio_file = "none"
    /\ upload_audio_file_store(r, TRUE, "s3_failed")

\* C21: an intake whose object-store put fails is not answered with an
\* error at that point: the Audio Reference is stored with storage_type
\* local and the run goes on to transcription, and every run that
\* transcribes a local reference reads the local file.
C21_PutFailureFallsBackToLocal ==
    /\ [][\A r \in Runs : PutFailsStep(r) =>
             /\ audio_file' = "local"
             /\ runs'[r].pc = "transcribing"]_vars
    /\ [](audio_file = "local" =>
             \A r \in Runs : runs[r].pc = "transcribing" =>
                 AudioSource(runs[r].kind) = "local_file")

\* a local reference is stored and both kinds of run are about to
\* transcribe it
C21_Witness ==
    /\ audio_file = "local"
    /\ \E r \in Runs : runs[r].kind = "upload" /\ runs[r].pc = "transcribing"
    /\ \E r \in Runs : runs[r].kind = "task" /\ runs[r].pc = "transcribing"

\* the persisted objects of the session
persisted ==
    <<status, audio_file, transcript, responses, scoring_result,
      score_history, coaching_feedback>>

\* the storing step of an upload whose payload is over the size limit
OversizeStep(r) ==
    /\ runs[r].pc = "storing"
    /\ \E st \in StoreOutcomes : upload_audio_file_store(r, FALSE, st)

\* C22: an upload with an unsupported content type ends at the validation
\* with nothing changed, an oversize upload leaves every persisted object
\* as it was, and while the session has no verdicts a scoring request is
\* answered 400 and no step writes the Score Snapshot or the Score
\* History.
C22_RejectedRequestChangesNothing ==
    /\ [][\A r \in Runs : upload_audio_file_check(r, FALSE) =>
             UNCHANGED vars]_vars
    /\ [][\A r \in Runs : OversizeStep(r) => UNCHANGED persisted]_vars
    /\ [](responses = {} => calculate_answer = "400")
    /\ [][responses = {} =>
             /\ UNCHANGED <<scoring_result, score_history>>
             /\ (status' = "scoring" => status = "scoring")]_vars

\* an upload is at its size check on a session that has no verdicts, no
\* audio and no snapshot
C22_Witness ==
    /\ \E r \in Runs : runs[r].pc = "storing"
    /\ audio_file = "none"
    /\ responses = {}
    /\ calculate_answer = "400"
    /\ scoring_result = <<>>

\* the narration results in which the text-to-speech call or the put of
\* its audio fails
FailedNarrations == {"tts_failed", "upload_failed"}

\* a step in which coaching request j, with a feedback text from the
\* service and no row in its way, reaches the insert with narration n
CoachingSaveStep(j, n) ==
    /\ coach[j].pc = "generating"
    /\ coaching_feedback = {}
    /\ \E c \in CoachCompletions :
          /\ coaching_service_call(TRUE, responses, c) \in FeedbackTexts
          /\ \/ generate_coaching_feedback_save(j, c, n)
             \/ regenerate_coaching_feedback_save(j, c, n)

\* a step in which the background task runs on a session with a snapshot
\* and no feedback, the completion gives a feedback text and the narration
\* is n
BackgroundSaveStep(n) ==
    /\ coaching_task
    /\ coaching_feedback = {}
    /\ scoring_result # <<>>
    /\ \E c \in CoachCompletions :
          /\ coaching_service_call(TRUE, responses, c) \in FeedbackTexts
          /\ \E p \in BOOLEAN : generate_coaching_in_background(c, n, p)

\* C23: when the narration or the put of its audio fails, each of the
\* three coaching paths still stores the feedback text, with no audio
\* reference, and the request does not end in an error.
C23_NarrationFailureNotFatal ==
    [][\A n \in FailedNarrations :
          /\ \A j \in CoachJobs : CoachingSaveStep(j, n) =>
                /\ coaching_feedback' = {j}
                /\ feedback_columns'.feedback_text \in FeedbackTexts
                /\ feedback_columns'.audio_s3_key = "none"
          /\ BackgroundSaveStep(n) =>
                /\ coaching_feedback' # {}
                /\ feedback_columns'.feedback_text \in FeedbackTexts
                /\ feedback_columns'.audio_s3_key = "none"]_vars

\* every verdict of the session is effectively true
AllEffectivelyTrue ==
    /\ responses # {}
    /\ \A x \in responses : EffectiveVerdict(x) = "true"

\* a step in which coaching request j gets the result of the service
ServiceReturnStep(j) ==
    /\ coach[j].pc = "generating"
    /\ coaching_feedback = {}
    /\ \E c \in CoachCompletions, n \in Narrations :
          \/ generate_coaching_feedback_save(j, c, n)
          \/ regenerate_coaching_feedback_save(j, c, n)

RegenerateFails(j) ==
    /\ coach[j].kind = "regen"
    /\ coach[j].pc = "generating"
    /\ \E c \in CoachCompletions, n \in Narrations :
          regenerate_coaching_feedback_save(j, c, n)
    /\ j \notin coaching_feedback'

\* a step in which a regenerate request is refused for want of a Score
\* Snapshot
RegenerateRefused(j) ==
    /\ scoring_result = <<>>
    /\ regenerate_coaching_feedback_delete(j)

\* C29: a regenerate request that fails, refused for want of a snapshot or
\* ended by an exception of the coaching service, leaves the session with
\* the Coaching Feedback it had when the request arrived.
C29_FailedRegenerateKeepsFeedback ==
    [][\A j \in CoachJobs :
          /\ (coach[j].existing /\ RegenerateFails(j)) =>
                coaching_feedback' # {}
          /\ (coaching_feedback # {} /\ RegenerateRefused(j)) =>
                coaching_feedback' = coaching_feedback]_vars

\* a pipeline run r, upload or background task, commits its ten verdicts
SuccessfulAnalysisStep(r) ==
    /\ runs[r].pc = "replacing"
    /\ runs'[r].pc = "done"

\* C28: every successful analysis stores, with each verdict, the
\* sub-question evaluations the completion returned for that item, each
\* linked to the sub-question of the same order: after the background
\* task's store step the session holds the same verdicts and evaluations
\* as after the upload pipeline's
C28_EvaluationsStoredWithVerdicts ==
    [][\A r \in Runs :
          SuccessfulAnalysisStep(r) =>
              UploadRows(transcript, runs[r].yes, NumItems, TRUE)
                  \subseteq responses']_vars

\* run r transcribes its recording, and the insert of its Transcript is
\* rejected because the session already has one
DuplicateTranscriptStep(r) ==
    /\ transcript # 0
    /\ \/ upload_transcribe(r, TRUE)
       \/ process_transcription_transcribe(r, TRUE)

\* a run has stored the Transcript and its ten verdicts
AnalysisStored ==
    /\ transcript # 0
    /\ \E q \in Runs : runs[q].pc = "done"

\* C26: when one of two overlapping pipeline runs has stored the Transcript
\* and the ten verdicts, the failure of the other run to insert a second
\* Transcript does not leave the session failed.
C26_DuplicateTranscriptNotFailed ==
    [][\A r \in Runs :
          (AnalysisStored /\ DuplicateTranscriptStep(r)) =>
              status' # "failed"]_vars

\* a step of the operations that score, override or transcribe: POST
\* /calculate, the override of a verdict, POST /transcribe and the steps
\* of the task it schedules
ScoringOrTranscribeStep ==
    \/ calculate_session_score
    \/ \E i \in OverrideItems, a \in {"true", "false"} :
          update_checklist_item(i, a)
    \/ \E r \in Runs : start_transcription(r)
    \/ \E r \in Runs, ok \in BOOLEAN : process_transcription_transcribe(r, ok)
    \/ \E r \in Runs, c \in Completions, y \in YesCounts :
          process_transcription_analyze(r, analyze_transcript(c) = "ok", y)
    \/ \E r \in Runs, ok \in BOOLEAN : process_transcription_store(r, ok)

\* C27: once a session is completed, no scoring, override or transcription
\* operation moves it to another status; POST /calculate on a completed
\* session leaves it completed.
C27_CompletedStaysCompleted ==
    [][(status = "completed" /\ ScoringOrTranscribeStep) =>
          status' = "completed"]_vars

\* a report request of a user who does not own the session
NonOwnerReportStep ==
    \E u \in UserIds \ {SessionOwner}, p \in BOOLEAN :
        \/ generate_report(u, p)
        \/ regenerate_report(u, p)

\* C30: a request of a user who is not the owner of the session changes
\* nothing that is persisted for it: regenerate_report by a non-owner is
\* answered 404 and leaves is_generated of the Report as it was.
C30_NonOwnerChangesNothing ==
    [][NonOwnerReportStep =>
          /\ report' = report
          /\ \A u \in UserIds \ {SessionOwner}, p \in BOOLEAN :
                generate_report_answer(u, ResetReport(report), p) = "404"]_vars

\* the sessions of the users who share team or organization m of user u
\* (field f), or u's own session when u has none
SessionsOfUnit(u, f) ==
    IF users[u][f] = 0 THEN {u}
    ELSE {s \in Sessions : users[s][f] = users[u][f]}

\* the sessions a user may see: own for a representative, the team's for
\* a manager, the organization's for an administrator
VisibleSessions(u) ==
    IF users[u].role = "admin" THEN SessionsOfUnit(u, "organization_id")
    ELSE IF users[u].role = "manager" THEN SessionsOfUnit(u, "team_id")
    ELSE {u}

\* two users are assigned to different organizations
OtherOrganization(u, s) ==
    /\ users[u].organization_id # 0
    /\ users[s].organization_id # 0
    /\ users[u].organization_id # users[s].organization_id

\* C25: the sessions a user lists, fetches by id or sees counted in the
\* pipeline metrics are exactly the user's own (representative), the
\* team's (manager) or the organization's (administrator); a session
\* outside that set is answered 404, and a session of another
\* organization is never shown.
C25_VisibleSessionsByRole ==
    LET u == access_response.user
        s == access_response.session_id
    IN  /\ access_response.request \in {"list", "metrics"} =>
               access_response.sessions = VisibleSessions(u)
        /\ access_response.request = "get" =>
               /\ access_response.code =
                      (IF s \in VisibleSessions(u) THEN "200" ELSE "404")
               /\ access_response.sessions = VisibleSessions(u) \cap {s}
        /\ access_response.request # "none" =>
               \A x \in access_response.sessions : ~OtherOrganization(u, x)

====================================================================
